---- MODULE Spec2Model ----
(***************************************************************************)
(* Model of the zombie_scape WebSocket server (src/src/main.rs).           *)
(*                                                                         *)
(* One task per accepted connection runs handle_connection; all tasks      *)
(* share one SessionRegistry, a Mutex over a HashMap from session id to a  *)
(* Mutex over a GameSession.  The model follows each task through the      *)
(* handshake, the receive loop, handle_client_message (with the places     *)
(* where it takes and drops the two kinds of lock) and the send.           *)
(*                                                                         *)
(* The simulation engine (crate zombie_scape) is an external library; it   *)
(* is modelled by a stub: a tick counter, a status that turns terminal at  *)
(* a tick fixed by the configuration, and a constructor that either        *)
(* builds a state or fails.  GameState::new returns a GameState, not a     *)
(* Result, so the only way it can fail is by panicking.                    *)
(***************************************************************************)
EXTENDS Integers, FiniteSets, Sequences, TLC

\* ---------------------------------------------------------------- bounds
MaxConns    == 2   \* connection tasks
MaxSessions == 2   \* session ids Uuid::new_v4 can hand out
MaxSteps    == 2   \* largest `steps` of a StepSimulation request
MaxFrames   == 4   \* frames read, over all connections together
MaxHorizon  == 1   \* latest tick at which the engine stub turns terminal
MaxWidth    == 2   \* widest maze of a configuration
MaxHeight   == 1   \* tallest maze of a configuration

Conns      == 1..MaxConns
SessionIds == 1..MaxSessions
NoConn     == 0
BogusId    == 0    \* an id no session ever had

VARIABLES
    sessions,    \* the registry's map: id -> GameSession, or NoSession
    regLock,     \* holder of the registry mutex, or NoConn
    sessLock,    \* holder of each session's mutex, or NoConn
    issued,      \* ids Uuid::new_v4 has returned so far
    pc,          \* where each connection task is
    frame,       \* kind of the last frame each connection read
    req,         \* the ClientMessage each connection is handling
    resp,        \* the ServerMessage each connection built last
    pending,     \* CreateSession: the session built but not yet inserted
    recvd,       \* frames read per connection
    recvText,    \* text frames read per connection
    sent,        \* messages sent per connection
    cause,       \* why a connection task ended
    atDispatch,  \* history: was the named id registered / closed at dispatch
    closedIds,   \* history: ids a CloseSession has removed
    ticksDone,   \* history: sum of `steps` of completed StepSimulations per id
    parseErrors, \* history: malformed text frames read per connection
    regPoisoned, \* the registry mutex is poisoned (a holder panicked)
    sessPoisoned, \* per id: the session's mutex is poisoned
    reported     \* history: per id, the step of the last response built for it

vars == <<sessions, regLock, sessLock, issued, pc, frame, req, resp, pending,
          recvd, recvText, sent, cause, atDispatch, closedIds, ticksDone,
          parseErrors, regPoisoned, sessPoisoned, reported>>

poisonVars == <<regPoisoned, sessPoisoned>>

\* ------------------------------------------------------------ engine stub
InvalidConfig == [valid |-> FALSE, horizon |-> 0, maze_width |-> 0, maze_height |-> 0]
GameConfigs ==
    {[valid |-> TRUE, horizon |-> h, maze_width |-> w, maze_height |-> g] :
        h \in 1..MaxHorizon, w \in 1..MaxWidth, g \in 1..MaxHeight}
    \cup {InvalidConfig}

\* GameState::new(config): the grid the engine builds has the configured size
GameState_new(config) ==
    [current_step |-> 0, status |-> "running", horizon |-> config.horizon,
     config |-> [maze_width |-> config.maze_width, maze_height |-> config.maze_height],
     grid |-> [width |-> config.maze_width, height |-> config.maze_height]]

\* Grid2D::is_walkable at the centre of cell (x, y), counted from 0
is_walkable(grid, x, y) == (x + y) % 2 = 0

\* GameState::step(dt): one tick
GameState_step(state) ==
    [state EXCEPT !.current_step = @ + 1,
                  !.status = IF state.current_step + 1 >= state.horizon
                             THEN "finished" ELSE "running"]

\* ------------------------------------------------------------ GameSession
NoSession == [id |-> BogusId]

GameSession_new(config, id) == [id |-> id, state |-> GameState_new(config)]

\* for _ in 0..n { self.state.step(DT) }
RECURSIVE Ticks(_, _)
Ticks(session, n) ==
    IF n <= 0 THEN session
    ELSE Ticks([session EXCEPT !.state = GameState_step(@)], n - 1)

\* mutants of GameSession::step: an inclusive range, and a floor of one tick
GameSession_step_inclusive(session, steps) == Ticks(session, steps + 1)
GameSession_step_atleast1(session, steps) ==
    Ticks(session, IF steps = 0 THEN 1 ELSE steps)

GameSession_step(session, steps) == Ticks(session, steps)

get_snapshot(session) ==
    [step |-> session.state.current_step, status |-> session.state.status,
     maze_info |-> [width |-> session.state.config.maze_width,
                    height |-> session.state.config.maze_height]]

\* the zeroed snapshot CloseSession answers with
PlaceholderSnapshot ==
    [step |-> 0, status |-> "running", maze_info |-> [width |-> 0, height |-> 0]]

\* mutant of serialize_grid: the two loops exchanged
serialize_grid_transposed(grid) ==
    [x \in 1..grid.width |->
        [y \in 1..grid.height |->
            IF is_walkable(grid, x - 1, y - 1) THEN "walkable" ELSE "wall"]]

\* serialize_grid: one row per y, one entry per x
serialize_grid(grid) ==
    [y \in 1..grid.height |->
        [x \in 1..grid.width |->
            IF is_walkable(grid, x - 1, y - 1) THEN "walkable" ELSE "wall"]]

\* --------------------------------------------------------------- messages
NoSnapshot ==
    [step |-> -1, status |-> "none", maze_info |-> [width |-> 0, height |-> 0]]
NoGrid == << >>    \* a message without a maze_grid field
NoResp ==
    [type |-> "none", session_id |-> BogusId, state |-> NoSnapshot, code |-> "",
     maze_grid |-> NoGrid]

SessionCreated(id, snap, grid) ==
    [type |-> "session_created", session_id |-> id, state |-> snap, code |-> "",
     maze_grid |-> grid]
StateUpdate(id, snap) ==
    [type |-> "state_update", session_id |-> id, state |-> snap, code |-> "",
     maze_grid |-> NoGrid]
Error(code) ==
    [type |-> "error", session_id |-> BogusId, state |-> NoSnapshot, code |-> code,
     maze_grid |-> NoGrid]

NoReq == [kind |-> "none", session_id |-> BogusId, steps |-> 0, config |-> InvalidConfig]

CreateSessionMsg(config) ==
    [kind |-> "create_session", session_id |-> BogusId, steps |-> 0, config |-> config]
StepSimulationMsg(id, n) ==
    [kind |-> "step_simulation", session_id |-> id, steps |-> n, config |-> InvalidConfig]
GetStateMsg(id) ==
    [kind |-> "get_state", session_id |-> id, steps |-> 0, config |-> InvalidConfig]
CloseSessionMsg(id) ==
    [kind |-> "close_session", session_id |-> id, steps |-> 0, config |-> InvalidConfig]

Keys == {id \in SessionIds : sessions[id] # NoSession}

\* Ids a client can name: those some response has carried (a v4 UUID cannot
\* be named before it is generated), and one that never existed.
NameableIds == Keys \cup closedIds \cup {BogusId}

ClientMessages ==
    {CreateSessionMsg(cfg) : cfg \in GameConfigs}
    \cup {StepSimulationMsg(id, n) : id \in NameableIds, n \in 0..MaxSteps}
    \cup {GetStateMsg(id) : id \in NameableIds}
    \cup {CloseSessionMsg(id) : id \in NameableIds}

PerSession == {"step_simulation", "get_state", "close_session"}

NotDispatched == [registered |-> FALSE, closed |-> FALSE]

\* ------------------------------------------------------------------- Init
Init ==
    /\ sessions   = [id \in SessionIds |-> NoSession]
    /\ regLock    = NoConn
    /\ sessLock   = [id \in SessionIds |-> NoConn]
    /\ issued     = {}
    /\ pc         = [c \in Conns |-> "handshaking"]
    /\ frame      = [c \in Conns |-> "none"]
    /\ req        = [c \in Conns |-> NoReq]
    /\ resp       = [c \in Conns |-> NoResp]
    /\ pending    = [c \in Conns |-> NoSession]
    /\ recvd      = [c \in Conns |-> 0]
    /\ recvText   = [c \in Conns |-> 0]
    /\ sent       = [c \in Conns |-> 0]
    /\ cause      = [c \in Conns |-> "none"]
    /\ atDispatch = [c \in Conns |-> NotDispatched]
    /\ closedIds  = {}
    /\ ticksDone  = [id \in SessionIds |-> 0]
    /\ parseErrors = [c \in Conns |-> 0]
    /\ regPoisoned = FALSE
    /\ sessPoisoned = [id \in SessionIds |-> FALSE]
    /\ reported = [id \in SessionIds |-> 0]

\* ------------------------------------------------------ handle_connection
\* accept_async succeeds or fails
UpgradeOk(c) ==
    /\ pc[c] = "handshaking"
    /\ pc' = [pc EXCEPT ![c] = "open"]
    /\ UNCHANGED <<sessions, regLock, sessLock, issued, frame, req, resp, pending,
                   recvd, recvText, sent, cause, atDispatch, closedIds, ticksDone>>
    /\ UNCHANGED <<parseErrors, poisonVars, reported>>

UpgradeFail(c) ==
    /\ pc[c] = "handshaking"
    /\ pc' = [pc EXCEPT ![c] = "closed"]
    /\ cause' = [cause EXCEPT ![c] = "handshake"]
    /\ UNCHANGED <<sessions, regLock, sessLock, issued, frame, req, resp, pending,
                   recvd, recvText, sent, atDispatch, closedIds, ticksDone>>
    /\ UNCHANGED <<parseErrors, poisonVars, reported>>

\* read.next().await is reached only at the top of the loop
RECURSIVE FramesRead(_)
FramesRead(n) == IF n = 0 THEN 0 ELSE recvd[n] + FramesRead(n - 1)

\* mutant of CanRead: the next frame is read while the answer is being sent
CanRead_pipelined(c) ==
    pc[c] \in {"open", "sending"} /\ FramesRead(MaxConns) < MaxFrames

CanRead(c) == pc[c] = "open" /\ FramesRead(MaxConns) < MaxFrames

\* Ok(Message::Text(text)) that decodes as a ClientMessage
RecvRequest(c) ==
    /\ CanRead(c)
    /\ \E m \in ClientMessages :
        /\ req' = [req EXCEPT ![c] = m]
        /\ atDispatch' = [atDispatch EXCEPT ![c] =
               [registered |-> m.session_id \in Keys,
                closed     |-> m.session_id \in closedIds]]
    /\ frame' = [frame EXCEPT ![c] = "text"]
    /\ resp' = [resp EXCEPT ![c] = NoResp]
    /\ recvd' = [recvd EXCEPT ![c] = @ + 1]
    /\ recvText' = [recvText EXCEPT ![c] = @ + 1]
    /\ pc' = [pc EXCEPT ![c] = "dispatch"]
    /\ UNCHANGED <<sessions, regLock, sessLock, issued, pending, sent, cause,
                   closedIds, ticksDone>>
    /\ UNCHANGED <<parseErrors, poisonVars, reported>>

\* mutant of RecvMalformed: a frame that does not decode ends the loop
RecvMalformed_closes(c) ==
    /\ CanRead(c)
    /\ frame' = [frame EXCEPT ![c] = "malformed"]
    /\ cause' = [cause EXCEPT ![c] = "error"]
    /\ recvd' = [recvd EXCEPT ![c] = @ + 1]
    /\ recvText' = [recvText EXCEPT ![c] = @ + 1]
    /\ parseErrors' = [parseErrors EXCEPT ![c] = @ + 1]
    /\ UNCHANGED <<poisonVars, reported>>
    /\ pc' = [pc EXCEPT ![c] = "closed"]
    /\ UNCHANGED <<sessions, regLock, sessLock, issued, req, resp, pending, sent,
                   atDispatch, closedIds, ticksDone>>

\* Ok(Message::Text(text)) that serde_json rejects
RecvMalformed(c) ==
    /\ CanRead(c)
    /\ frame' = [frame EXCEPT ![c] = "malformed"]
    /\ req' = [req EXCEPT ![c] = NoReq]
    /\ resp' = [resp EXCEPT ![c] = Error("parse_error")]
    /\ recvd' = [recvd EXCEPT ![c] = @ + 1]
    /\ recvText' = [recvText EXCEPT ![c] = @ + 1]
    /\ pc' = [pc EXCEPT ![c] = "sending"]
    /\ UNCHANGED <<sessions, regLock, sessLock, issued, pending, sent, cause,
                   atDispatch, closedIds, ticksDone>>
    /\ parseErrors' = [parseErrors EXCEPT ![c] = @ + 1]
    /\ UNCHANGED <<poisonVars, reported>>

\* Ok(_): binary, ping, pong
RecvOther(c) ==
    /\ CanRead(c)
    /\ recvd' = [recvd EXCEPT ![c] = @ + 1]
    /\ UNCHANGED <<sessions, regLock, sessLock, issued, pc, frame, req, resp, pending,
                   recvText, sent, cause, atDispatch, closedIds, ticksDone>>
    /\ UNCHANGED <<parseErrors, poisonVars, reported>>

\* mutant of RecvEnd: the loop goes on after a close frame or an error
RecvEnd_ignored(c) ==
    /\ CanRead(c)
    /\ \E k \in {"close", "error", "eof"} : frame' = [frame EXCEPT ![c] = k]
    /\ recvd' = [recvd EXCEPT ![c] = @ + 1]
    /\ UNCHANGED <<sessions, regLock, sessLock, issued, pc, req, resp, pending,
                   recvText, sent, cause, atDispatch, closedIds, ticksDone,
                   parseErrors, poisonVars, reported>>

\* mutant of RecvEnd: the registry is emptied when a connection ends
RecvEnd_clearing(c) ==
    /\ CanRead(c)
    /\ \E k \in {"close", "error", "eof"} :
        /\ frame' = [frame EXCEPT ![c] = k]
        /\ cause' = [cause EXCEPT ![c] = k]
    /\ recvd' = [recvd EXCEPT ![c] = @ + 1]
    /\ pc' = [pc EXCEPT ![c] = "closed"]
    /\ sessions' = [id \in SessionIds |-> NoSession]
    /\ closedIds' = closedIds \cup Keys
    /\ UNCHANGED <<regLock, sessLock, issued, req, resp, pending,
                   recvText, sent, atDispatch, ticksDone>>
    /\ UNCHANGED <<parseErrors, poisonVars, reported>>

\* Ok(Message::Close(_)), Err(e), or the stream ending (None)
RecvEnd(c) ==
    /\ CanRead(c)
    /\ \E k \in {"close", "error", "eof"} :
        /\ frame' = [frame EXCEPT ![c] = k]
        /\ cause' = [cause EXCEPT ![c] = k]
    /\ recvd' = [recvd EXCEPT ![c] = @ + 1]
    /\ pc' = [pc EXCEPT ![c] = "closed"]
    /\ UNCHANGED <<sessions, regLock, sessLock, issued, req, resp, pending,
                   recvText, sent, atDispatch, closedIds, ticksDone>>
    /\ UNCHANGED <<parseErrors, poisonVars, reported>>

\* write.send(...).await
SendOk(c) ==
    /\ pc[c] = "sending"
    /\ sent' = [sent EXCEPT ![c] = @ + 1]
    /\ pc' = [pc EXCEPT ![c] = "open"]
    /\ req' = [req EXCEPT ![c] = NoReq]
    /\ resp' = [resp EXCEPT ![c] = NoResp]
    /\ atDispatch' = [atDispatch EXCEPT ![c] = NotDispatched]
    /\ frame' = [frame EXCEPT ![c] = "none"]
    /\ UNCHANGED <<sessions, regLock, sessLock, issued, pending,
                   recvd, recvText, cause, closedIds, ticksDone>>
    /\ UNCHANGED <<parseErrors, poisonVars, reported>>

SendFail(c) ==
    /\ pc[c] = "sending"
    /\ pc' = [pc EXCEPT ![c] = "closed"]
    /\ cause' = [cause EXCEPT ![c] = "send"]
    /\ req' = [req EXCEPT ![c] = NoReq]
    /\ resp' = [resp EXCEPT ![c] = NoResp]
    /\ atDispatch' = [atDispatch EXCEPT ![c] = NotDispatched]
    /\ UNCHANGED <<sessions, regLock, sessLock, issued, frame, pending,
                   recvd, recvText, sent, closedIds, ticksDone>>
    /\ UNCHANGED <<parseErrors, poisonVars, reported>>

\* -------------------------------------------------- handle_client_message
\* Uuid::new_v4(): an id never returned before
FreshIds == SessionIds \ issued

\* HashMap::insert / HashMap::remove on the registry's map
registry_insert(map, id, session) == [map EXCEPT ![id] = session]
\* mutant of registry_remove: the entry is looked up but stays in the map
registry_remove_kept(map, id) == map

registry_remove(map, id) == [map EXCEPT ![id] = NoSession]

\* mutant of SessionNotFound: another code string
SessionNotFound_generic == Error("not_found")

\* the Error every arm answers with when the id is not a key
SessionNotFound == Error("session_not_found")

\* CreateSession, lines 187-192: build the session, take its snapshot.  No
\* lock is held.  A configuration the engine rejects makes GameState::new
\* panic: the task ends there and nothing is answered.
CreateSession_new(c) ==
    /\ pc[c] = "dispatch"
    /\ req[c].kind = "create_session"
    /\ IF req[c].config.valid
       THEN /\ \E id \in FreshIds :
                 /\ pending' = [pending EXCEPT ![c] = GameSession_new(req[c].config, id)]
                 /\ issued' = issued \cup {id}
            /\ pc' = [pc EXCEPT ![c] = "insert"]
            /\ UNCHANGED cause
       ELSE /\ pc' = [pc EXCEPT ![c] = "closed"]
            /\ cause' = [cause EXCEPT ![c] = "panic"]
            /\ UNCHANGED <<pending, issued>>
    /\ UNCHANGED <<sessions, regLock, sessLock, frame, req, resp, recvd, recvText,
                   sent, atDispatch, closedIds, ticksDone>>
    /\ UNCHANGED <<parseErrors, poisonVars, reported>>

\* CreateSession, lines 195-207: sessions.lock().unwrap().insert(..); the
\* guard is a temporary, dropped at the end of the statement.
CreateSession_insert(c) ==
    /\ pc[c] = "insert"
    /\ regLock = NoConn
    /\ ~regPoisoned
    /\ sessions' = registry_insert(sessions, pending[c].id, pending[c])
    /\ resp' = [resp EXCEPT ![c] =
           SessionCreated(pending[c].id, get_snapshot(pending[c]),
                          serialize_grid(pending[c].state.grid))]
    /\ pending' = [pending EXCEPT ![c] = NoSession]
    /\ reported' = [reported EXCEPT ![pending[c].id] = resp'[c].state.step]
    /\ pc' = [pc EXCEPT ![c] = "sending"]
    /\ UNCHANGED <<regLock, sessLock, issued, frame, req, recvd, recvText, sent,
                   cause, atDispatch, closedIds, ticksDone>>
    /\ UNCHANGED <<parseErrors, poisonVars>>

\* let sessions = sessions.lock().unwrap(); (lines 213, 233, 252).  The
\* guard lives to the end of the match arm.
LockRegistry(c) ==
    /\ pc[c] = "dispatch"
    /\ req[c].kind \in PerSession
    /\ regLock = NoConn
    /\ ~regPoisoned
    /\ regLock' = c
    /\ pc' = [pc EXCEPT ![c] = "locked"]
    /\ UNCHANGED <<sessions, sessLock, issued, frame, req, resp, pending, recvd,
                   recvText, sent, cause, atDispatch, closedIds, ticksDone>>
    /\ UNCHANGED <<parseErrors, poisonVars, reported>>

\* sessions.get(&session_id) of StepSimulation and GetState (lines 215, 235)
Lookup(c) ==
    /\ pc[c] = "locked"
    /\ req[c].kind \in {"step_simulation", "get_state"}
    /\ IF req[c].session_id \in Keys
       THEN /\ pc' = [pc EXCEPT ![c] = "lock_session"]
            /\ UNCHANGED <<regLock, resp>>
       ELSE /\ resp' = [resp EXCEPT ![c] = SessionNotFound]
            /\ regLock' = NoConn
            /\ pc' = [pc EXCEPT ![c] = "sending"]
    /\ UNCHANGED <<sessions, sessLock, issued, frame, req, pending, recvd,
                   recvText, sent, cause, atDispatch, closedIds, ticksDone>>
    /\ UNCHANGED <<parseErrors, poisonVars, reported>>

\* mutant of LockSession: the session is reached through a clone of its Arc
\* taken out of the registry, without either mutex being held
LockSession_unguarded(c) ==
    /\ pc[c] = "lock_session"
    /\ regLock' = NoConn
    /\ pc' = [pc EXCEPT ![c] = "in_session"]
    /\ UNCHANGED <<sessions, sessLock, issued, frame, req, resp, pending, recvd,
                   recvText, sent, cause, atDispatch, closedIds, ticksDone>>
    /\ UNCHANGED <<parseErrors, poisonVars, reported>>

\* session_arc.lock().unwrap() (lines 217, 237)
LockSession(c) ==
    /\ pc[c] = "lock_session"
    /\ sessLock[req[c].session_id] = NoConn
    /\ ~sessPoisoned[req[c].session_id]
    /\ sessLock' = [sessLock EXCEPT ![req[c].session_id] = c]
    /\ pc' = [pc EXCEPT ![c] = "in_session"]
    /\ UNCHANGED <<sessions, regLock, issued, frame, req, resp, pending, recvd,
                   recvText, sent, cause, atDispatch, closedIds, ticksDone>>
    /\ UNCHANGED <<parseErrors, poisonVars, reported>>

\* mutant of StepSimulation_run: the registry guard outlives the dispatch
StepSimulation_run_holding(c) ==
    /\ pc[c] = "in_session"
    /\ req[c].kind = "step_simulation"
    /\ LET id == req[c].session_id
           session == GameSession_step(sessions[id], req[c].steps)
       IN /\ sessions' = [sessions EXCEPT ![id] = session]
          /\ resp' = [resp EXCEPT ![c] = StateUpdate(id, get_snapshot(session))]
          /\ sessLock' = [sessLock EXCEPT ![id] = NoConn]
          /\ reported' = [reported EXCEPT ![id] = resp'[c].state.step]
          /\ ticksDone' = [ticksDone EXCEPT ![id] = @ + req[c].steps]
    /\ pc' = [pc EXCEPT ![c] = "sending"]
    /\ UNCHANGED <<regLock, issued, frame, req, pending, recvd, recvText, sent,
                   cause, atDispatch, closedIds, parseErrors, poisonVars>>

\* mutant of StepSimulation_run: the snapshot is taken before the stepping
StepSimulation_run_stale(c) ==
    /\ pc[c] = "in_session"
    /\ req[c].kind = "step_simulation"
    /\ LET id == req[c].session_id
           session == GameSession_step(sessions[id], req[c].steps)
       IN /\ sessions' = [sessions EXCEPT ![id] = session]
          /\ resp' = [resp EXCEPT ![c] = StateUpdate(id, get_snapshot(sessions[id]))]
          /\ sessLock' = [sessLock EXCEPT ![id] = NoConn]
          /\ reported' = [reported EXCEPT ![id] = resp'[c].state.step]
          /\ ticksDone' = [ticksDone EXCEPT ![id] = @ + req[c].steps]
    /\ regLock' = NoConn
    /\ pc' = [pc EXCEPT ![c] = "sending"]
    /\ UNCHANGED <<issued, frame, req, pending, recvd, recvText, sent, cause,
                   atDispatch, closedIds>>
    /\ UNCHANGED <<parseErrors, poisonVars>>

\* StepSimulation, lines 218-223: step, snapshot, then both guards drop
StepSimulation_run(c) ==
    /\ pc[c] = "in_session"
    /\ req[c].kind = "step_simulation"
    /\ LET id == req[c].session_id
           session == GameSession_step(sessions[id], req[c].steps)
       IN /\ sessions' = [sessions EXCEPT ![id] = session]
          /\ resp' = [resp EXCEPT ![c] = StateUpdate(id, get_snapshot(session))]
          /\ sessLock' = [sessLock EXCEPT ![id] = NoConn]
          /\ reported' = [reported EXCEPT ![id] = resp'[c].state.step]
          /\ ticksDone' = [ticksDone EXCEPT ![id] = @ + req[c].steps]
    /\ regLock' = NoConn
    /\ pc' = [pc EXCEPT ![c] = "sending"]
    /\ UNCHANGED <<issued, frame, req, pending, recvd, recvText, sent, cause,
                   atDispatch, closedIds>>
    /\ UNCHANGED <<parseErrors, poisonVars>>

\* mutant of GetState_run: the query answers the step-0 placeholder that
\* CloseSession builds by hand
GetState_run_placeholder(c) ==
    /\ pc[c] = "in_session"
    /\ req[c].kind = "get_state"
    /\ LET id == req[c].session_id
       IN /\ resp' = [resp EXCEPT ![c] = StateUpdate(id, PlaceholderSnapshot)]
          /\ sessLock' = [sessLock EXCEPT ![id] = NoConn]
          /\ reported' = [reported EXCEPT ![id] = resp'[c].state.step]
    /\ regLock' = NoConn
    /\ pc' = [pc EXCEPT ![c] = "sending"]
    /\ UNCHANGED <<sessions, issued, frame, req, pending, recvd, recvText, sent,
                   cause, atDispatch, closedIds, ticksDone>>
    /\ UNCHANGED <<parseErrors, poisonVars>>

\* mutant of GetState_run: the query advances the session by one tick
GetState_run_stepping(c) ==
    /\ pc[c] = "in_session"
    /\ req[c].kind = "get_state"
    /\ LET id == req[c].session_id
           session == GameSession_step(sessions[id], 1)
       IN /\ sessions' = [sessions EXCEPT ![id] = session]
          /\ resp' = [resp EXCEPT ![c] = StateUpdate(id, get_snapshot(session))]
          /\ sessLock' = [sessLock EXCEPT ![id] = NoConn]
          /\ reported' = [reported EXCEPT ![id] = resp'[c].state.step]
    /\ regLock' = NoConn
    /\ pc' = [pc EXCEPT ![c] = "sending"]
    /\ UNCHANGED <<issued, frame, req, pending, recvd, recvText, sent, cause,
                   atDispatch, closedIds, ticksDone, parseErrors, poisonVars>>

\* GetState, lines 238-240: snapshot, then both guards drop
GetState_run(c) ==
    /\ pc[c] = "in_session"
    /\ req[c].kind = "get_state"
    /\ LET id == req[c].session_id
       IN /\ resp' = [resp EXCEPT ![c] = StateUpdate(id, get_snapshot(sessions[id]))]
          /\ sessLock' = [sessLock EXCEPT ![id] = NoConn]
          /\ reported' = [reported EXCEPT ![id] = resp'[c].state.step]
    /\ regLock' = NoConn
    /\ pc' = [pc EXCEPT ![c] = "sending"]
    /\ UNCHANGED <<sessions, issued, frame, req, pending, recvd, recvText, sent,
                   cause, atDispatch, closedIds, ticksDone>>
    /\ UNCHANGED <<parseErrors, poisonVars>>

\* mutant of CloseSession_remove: the result of remove is not looked at and
\* every close is answered as a success
CloseSession_remove_always(c) ==
    /\ pc[c] = "locked"
    /\ req[c].kind = "close_session"
    /\ LET id == req[c].session_id
       IN /\ resp' = [resp EXCEPT ![c] = StateUpdate(id, PlaceholderSnapshot)]
          /\ IF id \in Keys
             THEN /\ sessions' = registry_remove(sessions, id)
                  /\ closedIds' = closedIds \cup {id}
                  /\ reported' = [reported EXCEPT ![id] = resp'[c].state.step]
             ELSE UNCHANGED <<sessions, closedIds, reported>>
    /\ regLock' = NoConn
    /\ pc' = [pc EXCEPT ![c] = "sending"]
    /\ UNCHANGED <<sessLock, issued, frame, req, pending, recvd, recvText, sent,
                   cause, atDispatch, ticksDone>>
    /\ UNCHANGED <<parseErrors, poisonVars>>

\* CloseSession, lines 253-283: sessions.remove(&session_id), then the
\* guard drops
CloseSession_remove(c) ==
    /\ pc[c] = "locked"
    /\ req[c].kind = "close_session"
    /\ LET id == req[c].session_id
       IN IF id \in Keys
          THEN /\ sessions' = registry_remove(sessions, id)
               /\ resp' = [resp EXCEPT ![c] = StateUpdate(id, PlaceholderSnapshot)]
               /\ closedIds' = closedIds \cup {id}
               /\ reported' = [reported EXCEPT ![id] = resp'[c].state.step]
          ELSE /\ resp' = [resp EXCEPT ![c] = SessionNotFound]
               /\ UNCHANGED <<sessions, closedIds, reported>>
    /\ regLock' = NoConn
    /\ pc' = [pc EXCEPT ![c] = "sending"]
    /\ UNCHANGED <<sessLock, issued, frame, req, pending, recvd, recvText, sent,
                   cause, atDispatch, ticksDone>>
    /\ UNCHANGED <<parseErrors, poisonVars>>

\* ---------------------------------------------------------- engine panics
\* StepSimulation, line 218, when a GameState::step call panics: the ticks
\* before it have been applied, the unwinding drops both guards and marks
\* both mutexes poisoned, and the task ends without a response.
StepSimulation_panic(c) ==
    /\ pc[c] = "in_session"
    /\ req[c].kind = "step_simulation"
    /\ req[c].steps >= 1
    /\ LET id == req[c].session_id
       IN /\ \E k \in 0..(req[c].steps - 1) :
                sessions' = [sessions EXCEPT ![id] = Ticks(@, k)]
          /\ sessLock' = [sessLock EXCEPT ![id] = NoConn]
          /\ sessPoisoned' = [sessPoisoned EXCEPT ![id] = TRUE]
    /\ regLock' = NoConn
    /\ regPoisoned' = TRUE
    /\ pc' = [pc EXCEPT ![c] = "closed"]
    /\ cause' = [cause EXCEPT ![c] = "step_panic"]
    /\ UNCHANGED <<issued, frame, req, resp, pending, recvd, recvText, sent,
                   atDispatch, closedIds, ticksDone, parseErrors, reported>>

\* a task about to call lock().unwrap() on a poisoned mutex
AtPoisonedLock(c) ==
    \/ pc[c] = "dispatch" /\ req[c].kind \in PerSession /\ regPoisoned
    \/ pc[c] = "insert" /\ regPoisoned
    \/ pc[c] = "lock_session" /\ sessPoisoned[req[c].session_id]

\* lock() on a poisoned mutex returns Err, and unwrap() panics (lines 198,
\* 213, 217, 233, 237, 252): the task ends without a response.
Unwrap_poisoned(c) ==
    /\ AtPoisonedLock(c)
    /\ regLock = NoConn
    /\ pc' = [pc EXCEPT ![c] = "closed"]
    /\ cause' = [cause EXCEPT ![c] = "poisoned"]
    /\ UNCHANGED <<sessions, regLock, sessLock, issued, frame, req, resp, pending,
                   recvd, recvText, sent, atDispatch, closedIds, ticksDone,
                   parseErrors, poisonVars, reported>>

\* ------------------------------------------------------------------- Next
Next ==
    \E c \in Conns :
        \/ UpgradeOk(c)
        \/ UpgradeFail(c)
        \/ RecvRequest(c)
        \/ RecvMalformed(c)
        \/ RecvOther(c)
        \/ RecvEnd(c)
        \/ CreateSession_new(c)
        \/ CreateSession_insert(c)
        \/ LockRegistry(c)
        \/ Lookup(c)
        \/ LockSession(c)
        \/ StepSimulation_run(c)
        \/ GetState_run(c)
        \/ CloseSession_remove(c)
        \/ SendOk(c)
        \/ SendFail(c)

Spec == Init /\ [][Next]_vars

\* handle_client_message has no suspension point: once a task has entered
\* it, the runtime runs it on to the response unless it waits for a mutex.
Handle(c) ==
    \/ CreateSession_new(c)
    \/ CreateSession_insert(c)
    \/ LockRegistry(c)
    \/ Lookup(c)
    \/ LockSession(c)
    \/ StepSimulation_run(c)
    \/ GetState_run(c)
    \/ CloseSession_remove(c)

FairSpec == Spec /\ \A c \in Conns : WF_vars(Handle(c))

\* the same program with an engine whose step can panic
PanicNext ==
    \/ Next
    \/ \E c \in Conns : StepSimulation_panic(c)
    \/ \E c \in Conns : Unwrap_poisoned(c)

PanicSpec == Init /\ [][PanicNext]_vars

\* ------------------------------------------------------------ type sanity
TypeOK ==
    /\ regLock \in Conns \cup {NoConn}
    /\ \A id \in SessionIds : sessLock[id] \in Conns \cup {NoConn}
    /\ Keys \subseteq issued
    /\ \A id \in Keys : sessions[id].id = id
    /\ \A c \in Conns : pc[c] \in {"handshaking", "open", "dispatch", "insert",
                                   "locked", "lock_session", "in_session",
                                   "sending", "closed"}

\* ----------------------------------------------------------------- claims

SnapshotOps == {"step_simulation", "get_state"}

\* a connection that holds a session (or is about to) for a step or snapshot
InSessionOp(c) ==
    /\ pc[c] \in {"lock_session", "in_session"}
    /\ req[c].kind \in SnapshotOps

\* C1: while one connection is executing StepSimulation or GetState on
\* session A, a StepSimulation or GetState another connection has dispatched
\* on a different registered session B can take its next step (it does not
\* have to wait for a lock that A's operation holds).
C1_CrossSessionIndependent ==
    \A a \in Conns : \A b \in Conns \ {a} :
        ( /\ InSessionOp(a)
          /\ pc[b] = "dispatch"
          /\ req[b].kind \in SnapshotOps
          /\ req[b].session_id \in Keys
          /\ req[b].session_id # req[a].session_id )
        => ENABLED LockRegistry(b)

\* C2: a StepSimulation, GetState or CloseSession whose id was not a key of
\* the registry when it was dispatched is answered with Error
\* "session_not_found"; handling it changes neither the registry nor any
\* session, and takes the task from dispatch to the send: it does not
\* crash, does not wait once it holds the registry, and (the handlers being
\* scheduled fairly) reaches the send.
UnknownAtDispatch(c) ==
    req[c].kind \in PerSession /\ ~atDispatch[c].registered

C2_UnknownIdAnswered ==
    \A c \in Conns :
        /\ (pc[c] = "sending" /\ UnknownAtDispatch(c))
              => resp[c] = Error("session_not_found")
        /\ (pc[c] = "locked" /\ UnknownAtDispatch(c))
              => ENABLED (Lookup(c) \/ CloseSession_remove(c))

C2_UnknownIdFrame ==
    \A c \in Conns :
        (UnknownAtDispatch(c) /\ pc[c] \in {"dispatch", "locked"} /\ pc'[c] # pc[c])
        => /\ sessions' = sessions
           /\ pc'[c] = IF pc[c] = "dispatch" THEN "locked" ELSE "sending"

C2_UnknownIdCompletes ==
    \A c \in Conns :
        (pc[c] = "dispatch" /\ UnknownAtDispatch(c)) ~> (pc[c] = "sending")

C2_UnknownIdNotFound ==
    /\ []C2_UnknownIdAnswered
    /\ [][C2_UnknownIdFrame]_vars
    /\ C2_UnknownIdCompletes

C2_Witness ==
    \E c \in Conns :
        /\ pc[c] = "sending"
        /\ UnknownAtDispatch(c)
        /\ resp[c] = Error("session_not_found")
        /\ Keys # {}

\* C3: an id that a CloseSession has removed is never a key again, and every
\* StepSimulation, GetState or CloseSession dispatched after the removal is
\* answered with Error "session_not_found".
C3_ClosedStaysClosed ==
    /\ closedIds \cap Keys = {}
    /\ \A c \in Conns :
        (pc[c] = "sending" /\ req[c].kind \in PerSession /\ atDispatch[c].closed)
        => resp[c] = Error("session_not_found")

C3_Witness ==
    \E c \in Conns :
        /\ pc[c] = "sending"
        /\ req[c].kind \in PerSession
        /\ atDispatch[c].closed
        /\ resp[c] = Error("session_not_found")
        /\ issued # closedIds

\* C4: a registered session's tick count is the sum of the step counts of
\* the StepSimulation requests completed on its id; a StepSimulation or
\* GetState reports that sum, and leaves every other session as it was.
C4_TicksAreOwnSteps ==
    \A id \in Keys : sessions[id].state.current_step = ticksDone[id]

C4_ReportsOwnSteps ==
    \A c \in Conns :
        (pc[c] = "in_session" /\ pc'[c] # "in_session")
        => /\ resp'[c].type = "state_update"
           /\ resp'[c].session_id = req[c].session_id
           /\ resp'[c].state.step = ticksDone'[req[c].session_id]
           /\ \A other \in SessionIds \ {req[c].session_id} :
                 /\ sessions'[other] = sessions[other]
                 /\ ticksDone'[other] = ticksDone[other]

C4_Isolation == []C4_TicksAreOwnSteps /\ [][C4_ReportsOwnSteps]_vars

C4_Witness ==
    \E c \in Conns : \E other \in Keys :
        /\ pc[c] = "sending"
        /\ req[c].kind = "step_simulation"
        /\ req[c].steps > 0
        /\ other # req[c].session_id
        /\ resp[c].state.step = req[c].steps
        /\ sessions[other].state.current_step = 0

\* C5: stepping a session by n and then by m gives the same session state
\* and the same snapshot as stepping it once by n+m; stepping by 0 changes
\* nothing; so a session's state after any sequence of completed
\* StepSimulations is that of a fresh session stepped once by their sum.
FreshSession(id) ==
    [sessions[id] EXCEPT !.state.current_step = 0, !.state.status = "running"]

C5_StepAdditive ==
    \A id \in Keys :
        /\ GameSession_step(sessions[id], 0) = sessions[id]
        /\ sessions[id] = GameSession_step(FreshSession(id), ticksDone[id])
        /\ \A n \in 0..MaxSteps : \A m \in 0..MaxSteps :
              LET twice == GameSession_step(GameSession_step(sessions[id], n), m)
                  once  == GameSession_step(sessions[id], n + m)
              IN  twice = once /\ get_snapshot(twice) = get_snapshot(once)

\* a StepSimulation by m > 0 answered on a session already stepped by n > 0
C5_Witness ==
    \E c \in Conns :
        /\ pc[c] = "sending"
        /\ req[c].kind = "step_simulation"
        /\ req[c].steps > 0
        /\ resp[c].type = "state_update"
        /\ resp[c].state.step > req[c].steps
        /\ req[c].session_id \in Keys
        /\ resp[c].state.step = ticksDone[req[c].session_id]

\* C6: SessionCreated carries a snapshot with step 0 and status running, and
\* a GetState on a session that no StepSimulation has advanced is answered
\* with a StateUpdate whose snapshot has step 0 and status running.
IsInitial(snap) == snap.step = 0 /\ snap.status = "running"

C6_CreateThenGet ==
    \A c \in Conns :
        /\ (pc[c] = "sending" /\ req[c].kind = "create_session")
              => /\ resp[c].type = "session_created"
                 /\ IsInitial(resp[c].state)
        /\ ( /\ pc[c] = "sending"
             /\ req[c].kind = "get_state"
             /\ req[c].session_id \in Keys
             /\ ticksDone[req[c].session_id] = 0 )
              => /\ resp[c].type = "state_update"
                 /\ resp[c].session_id = req[c].session_id
                 /\ IsInitial(resp[c].state)

C6_Witness ==
    \E c \in Conns :
        /\ pc[c] = "sending"
        /\ req[c].kind = "get_state"
        /\ req[c].session_id \in Keys
        /\ ticksDone[req[c].session_id] = 0
        /\ resp[c].type = "state_update"
        /\ resp[c].session_id = req[c].session_id
        /\ IsInitial(resp[c].state)

\* C7: a text frame that does not decode is answered with Error
\* "parse_error"; reading it changes neither the registry nor any session and
\* does not end the connection, and once the answer is sent the connection
\* is Open again, reading its next frame as before.
C7_MalformedAnswered ==
    \A c \in Conns :
        (pc[c] = "sending" /\ frame[c] = "malformed") => resp[c] = Error("parse_error")

C7_MalformedFrame ==
    \A c \in Conns :
        /\ (recvText'[c] # recvText[c] /\ frame'[c] = "malformed")
              => /\ sessions' = sessions
                 /\ closedIds' = closedIds
                 /\ pc'[c] = "sending"
                 /\ resp'[c] = Error("parse_error")
        /\ (frame[c] = "malformed" /\ sent'[c] # sent[c])
              => /\ pc'[c] = "open"
                 /\ sessions' = sessions

C7_ParseErrorKeepsOpen == []C7_MalformedAnswered /\ [][C7_MalformedFrame]_vars

\* a request being handled on a connection whose previous text frame was
\* malformed and has been answered
C7_Witness ==
    \E c \in Conns :
        /\ parseErrors[c] > 0
        /\ pc[c] = "sending"
        /\ frame[c] = "text"
        /\ resp[c].type \in {"session_created", "state_update"}

\* C8: a CreateSession whose configuration the engine rejects is answered
\* with an Error message, and inserts no session.
C8_RejectedConfigAnswered ==
    \A c \in Conns :
        (req[c].kind = "create_session" /\ ~req[c].config.valid /\ pc[c] # "dispatch")
        => /\ resp[c].type = "error"
           /\ pc[c] = "sending"

\* C9: a connection reads a frame only at the top of its loop, with every
\* earlier text frame answered: at most one request is in flight.
InFlight(c) == recvText[c] - sent[c]

C9_OneInFlight ==
    \A c \in Conns :
        /\ InFlight(c) \in {0, 1}
        /\ pc[c] \in {"handshaking", "open"} => InFlight(c) = 0
        /\ pc[c] \in {"dispatch", "insert", "locked", "lock_session",
                      "in_session", "sending"} => InFlight(c) = 1

C9_ReadsWhenIdle ==
    \A c \in Conns :
        recvd'[c] # recvd[c] => (pc[c] = "open" /\ InFlight(c) = 0)

C9_Sequential == []C9_OneInFlight /\ [][C9_ReadsWhenIdle]_vars

C9_Witness ==
    \E c \in Conns : sent[c] >= 1 /\ pc[c] = "sending" /\ recvText[c] = sent[c] + 1

\* C10: Handshaking goes to Open on a successful upgrade and to Closed on a
\* failed one; an Open connection that reads a close frame or a transport
\* error, or fails to send, is Closed; a Closed connection reads, handles
\* and sends nothing more.
C10_Lifecycle ==
    \A c \in Conns :
        /\ (pc[c] = "handshaking" /\ pc'[c] # "handshaking")
              => \/ pc'[c] = "open" /\ cause'[c] = "none"
                 \/ pc'[c] = "closed" /\ cause'[c] = "handshake"
        /\ (pc'[c] = "open" /\ pc[c] # "open") => pc[c] \in {"handshaking", "sending"}
        /\ (recvd'[c] # recvd[c] /\ frame'[c] \in {"close", "error", "eof"})
              => pc'[c] = "closed"
        /\ (pc[c] = "sending" /\ pc'[c] # "sending")
              => \/ pc'[c] = "open" /\ sent'[c] = sent[c] + 1
                 \/ pc'[c] = "closed" /\ sent'[c] = sent[c] /\ cause'[c] = "send"
        /\ pc[c] = "closed"
              => /\ pc'[c] = "closed"
                 /\ recvd'[c] = recvd[c]
                 /\ recvText'[c] = recvText[c]
                 /\ sent'[c] = sent[c]
                 /\ resp'[c] = resp[c]
                 /\ cause'[c] = cause[c]

C10_ClosedHoldsNothing ==
    \A c \in Conns :
        pc[c] = "closed"
        => /\ regLock # c
           /\ \A id \in SessionIds : sessLock[id] # c
           /\ cause[c] # "none"

C10_ConnectionStates == []C10_ClosedHoldsNothing /\ [][C10_Lifecycle]_vars

C10_Witness ==
    \E c \in Conns : \E d \in Conns :
        /\ pc[c] = "closed" /\ cause[c] = "close" /\ sent[c] >= 1
        /\ pc[d] = "closed" /\ cause[d] \in {"handshake", "send", "error"}

\* C11: a failure raised while one connection handles a request, the
\* engine's step panicking under the locks included, ends no other
\* connection's task: every later request of another connection is handled.
C11_FailuresIsolated ==
    \A c \in Conns : cause[c] # "poisoned"

\* C12: the maze grid of a SessionCreated has as many rows as the height of
\* the maze descriptor in the same response, each row has as many entries as
\* its width, every entry is "walkable" or "wall"; a StateUpdate or an Error
\* carries no maze grid.
C12_GridShape ==
    \A c \in Conns :
        /\ resp[c].type = "session_created"
              => /\ Len(resp[c].maze_grid) = resp[c].state.maze_info.height
                 /\ \A y \in 1..Len(resp[c].maze_grid) :
                       /\ Len(resp[c].maze_grid[y]) = resp[c].state.maze_info.width
                       /\ \A x \in 1..Len(resp[c].maze_grid[y]) :
                             resp[c].maze_grid[y][x] \in {"walkable", "wall"}
        /\ resp[c].type \in {"state_update", "error"} => resp[c].maze_grid = NoGrid

\* a creation answered with a grid that is not square, and a later answer
\* for the same session on another connection
C12_Witness ==
    \E c \in Conns : \E d \in Conns \ {c} :
        /\ resp[c].type = "session_created"
        /\ resp[c].state.maze_info.width # resp[c].state.maze_info.height
        /\ Len(resp[c].maze_grid) = resp[c].state.maze_info.height
        /\ resp[d].type = "state_update"
        /\ resp[d].session_id = resp[c].session_id

\* C13: a connection sends exactly one message for each text frame it has
\* handled and none otherwise: never more messages than text frames, as many
\* as text frames whenever it is back at the top of its loop, and as many as
\* text frames when it has ended (a failed send apart).
C13_OneAnswerPerTextFrame ==
    \A c \in Conns :
        /\ sent[c] <= recvText[c]
        /\ pc[c] = "open" => sent[c] = recvText[c]
        /\ (pc[c] = "closed" /\ cause[c] # "send") => sent[c] = recvText[c]

\* C14: a task waiting for a frame or for a send to finish (or not started,
\* or ended) holds no lock; a session lock is taken only by the holder of
\* the registry lock and the registry lock never by the holder of a session
\* lock; and a task inside the dispatch can either take a step itself or
\* waits for the registry lock, whose holder can take a step.
Suspended(c) == pc[c] \in {"handshaking", "open", "sending", "closed"}

\* the model's supply of ids is finite where Uuid::new_v4 never runs out: a
\* create_session that finds it empty is cut off by the bound, not by a lock
IdsExhausted(c) ==
    pc[c] = "dispatch" /\ req[c].kind = "create_session" /\ FreshIds = {}

C14_LocksInDispatchOnly ==
    \A c \in Conns :
        /\ Suspended(c) => (regLock # c /\ \A id \in SessionIds : sessLock[id] # c)
        /\ \A id \in SessionIds : sessLock[id] = c => regLock = c
        /\ (~Suspended(c) /\ ~IdsExhausted(c))
              => \/ ENABLED Handle(c)
                 \/ \E d \in Conns \ {c} : regLock = d /\ ENABLED Handle(d)

C14_LockOrder ==
    \A c \in Conns :
        /\ \A id \in SessionIds :
              (sessLock'[id] = c /\ sessLock[id] # c) => (regLock = c /\ regLock' = c)
        /\ (regLock' = c /\ regLock # c) => \A id \in SessionIds : sessLock[id] # c

C14_NoLockAcrossSuspension == []C14_LocksInDispatchOnly /\ [][C14_LockOrder]_vars

\* one task holds both locks while another is flushing its answer
C14_Witness ==
    \E c \in Conns : \E d \in Conns \ {c} :
        /\ pc[c] = "sending"
        /\ pc[d] = "in_session"
        /\ regLock = d
        /\ sessLock[req[d].session_id] = d

\* C15: at most one connection task is stepping or snapshotting a given
\* registered session, and that task holds the session's lock.
Using(c, id) ==
    /\ pc[c] = "in_session"
    /\ req[c].kind \in SnapshotOps
    /\ req[c].session_id = id

C15_OneCallerPerSession ==
    \A id \in SessionIds : \A c \in Conns :
        Using(c, id) =>
            /\ id \in Keys
            /\ sessLock[id] = c
            /\ \A d \in Conns \ {c} : ~Using(d, id)

\* one task is inside a session that another task has asked for too
C15_Witness ==
    \E id \in Keys : \E c \in Conns : \E d \in Conns \ {c} :
        /\ Using(c, id)
        /\ pc[d] = "dispatch"
        /\ req[d].kind \in SnapshotOps
        /\ req[d].session_id = id

\* C16: StepSimulation(id, n) on an existing session is one atomic advance
\* by n ticks with its snapshot: from the moment the task holds the session
\* until it answers, nobody else changes the session, and the step it
\* reports, which is also the session's new tick count, is the tick count it
\* found plus n.
C16_StepAndSnapshot ==
    \A c \in Conns :
        LET id == req[c].session_id
        IN (pc[c] = "in_session" /\ req[c].kind = "step_simulation")
           => IF pc'[c] = "in_session"
              THEN sessions'[id] = sessions[id]
              ELSE /\ pc'[c] = "sending"
                   /\ resp'[c].type = "state_update"
                   /\ resp'[c].session_id = id
                   /\ resp'[c].state.step
                          = sessions[id].state.current_step + req[c].steps
                   /\ sessions'[id].state.current_step = resp'[c].state.step

C16_AtomicStep == [][C16_StepAndSnapshot]_vars

\* two connections have stepped the same session one after the other and
\* the second answer counts the first one's ticks
C16_Witness ==
    \E c \in Conns : \E d \in Conns \ {c} :
        /\ pc[c] = "sending" /\ pc[d] = "sending"
        /\ req[c].kind = "step_simulation" /\ req[d].kind = "step_simulation"
        /\ req[c].session_id = req[d].session_id
        /\ req[c].steps > 0 /\ req[d].steps > 0
        /\ resp[c].type = "state_update" /\ resp[d].type = "state_update"
        /\ resp[c].state.step = req[c].steps
        /\ resp[d].state.step = req[c].steps + req[d].steps

\* C17: every step a task takes while handling a GetState leaves the
\* registry's key set and every session (tick counts included) as they were,
\* and the StateUpdate it answers carries the snapshot of the session as the
\* completed StepSimulations on that id left it: the snapshot of the newly
\* created session advanced by the ticks completed so far, the initial
\* snapshot if there were none.
C17_GetStateStep ==
    \A c \in Conns :
        LET id == req[c].session_id
        IN (req[c].kind = "get_state" /\ ~Suspended(c) /\ pc'[c] # pc[c])
           => /\ sessions' = sessions
              /\ ticksDone' = ticksDone
              /\ closedIds' = closedIds
              /\ issued' = issued
              /\ pc[c] = "in_session"
                    => /\ resp'[c] = StateUpdate(id, get_snapshot(sessions[id]))
                       /\ resp'[c].state = get_snapshot(
                              GameSession_step(FreshSession(id), ticksDone[id]))
                       /\ ticksDone[id] = 0 => IsInitial(resp'[c].state)

C17_GetStateReadOnly == [][C17_GetStateStep]_vars

\* a GetState answered after a StepSimulation that advanced the session
C17_Witness ==
    \E c \in Conns :
        /\ pc[c] = "sending"
        /\ req[c].kind = "get_state"
        /\ req[c].session_id \in Keys
        /\ resp[c].type = "state_update"
        /\ ticksDone[req[c].session_id] > 0
        /\ resp[c].state.step = ticksDone[req[c].session_id]
        /\ sessions[req[c].session_id].state.current_step = resp[c].state.step

\* C18: the step carried by the responses built for one session id starts
\* at 0 (SessionCreated) and never decreases from one response to the next,
\* the StateUpdate of a successful CloseSession included.
C18_ReportedStep ==
    \A c \in Conns :
        (resp'[c] # resp[c] /\ resp'[c].type \in {"session_created", "state_update"})
        => LET id == resp'[c].session_id
           IN /\ reported'[id] = resp'[c].state.step
              /\ resp'[c].type = "session_created" => resp'[c].state.step = 0
              /\ resp'[c].state.step >= reported[id]

C18_StepMonotonic == [][C18_ReportedStep]_vars

\* C19: the registry's key set changes only by a CreateSession inserting
\* one id that was never a key before, or by a CloseSession removing the id
\* it names; a registered session's state changes only by a StepSimulation
\* naming its id; a connection ending (close frame, transport error, end of
\* stream, failed send, failed handshake) or a parse error changes neither.
Inserts(c, id) ==
    /\ pc[c] = "insert" /\ pc'[c] = "sending"
    /\ pending[c].id = id
    /\ resp'[c].type = "session_created"

Removes(c, id) ==
    /\ pc[c] = "locked" /\ pc'[c] = "sending"
    /\ req[c].kind = "close_session"
    /\ req[c].session_id = id
    /\ resp'[c].type = "state_update"

Steps(c, id) ==
    /\ pc[c] = "in_session" /\ pc'[c] = "sending"
    /\ req[c].kind = "step_simulation"
    /\ req[c].session_id = id

C19_RegistryChange ==
    /\ \A id \in Keys' \ Keys :
          /\ \E c \in Conns : Inserts(c, id)
          /\ id \notin closedIds
          /\ Keys' = Keys \cup {id}
    /\ \A id \in Keys \ Keys' :
          /\ \E c \in Conns : Removes(c, id)
          /\ Keys' = Keys \ {id}
    /\ \A id \in Keys \cap Keys' :
          sessions'[id] # sessions[id] => \E c \in Conns : Steps(c, id)
    /\ \A c \in Conns :
          ( \/ pc'[c] = "closed" /\ pc[c] # "closed"
            \/ parseErrors'[c] # parseErrors[c] )
          => sessions' = sessions

C19_OnlyCreateAndClose == [][C19_RegistryChange]_vars

\* a session that was stepped is still registered after every connection,
\* its creator included, has ended, and after a parse error
C19_Witness ==
    /\ \A c \in Conns : pc[c] = "closed"
    /\ \E id \in Keys : sessions[id].state.current_step > 0
    /\ \E c \in Conns : parseErrors[c] > 0

\* C20: of the CloseSessions dispatched on one registered id, the one that
\* finds the id still registered removes it and is answered with the success
\* StateUpdate, which happens once per id; every other one is answered
\* "session_not_found" after that removal.  A StepSimulation or GetState
\* dispatched on the id is answered either with the snapshot of the session,
\* registered before and after it, or with "session_not_found" once the id
\* is closed; the session is not removed while a task is working on it.
C20_LiveWhileUsed ==
    \A c \in Conns :
        (pc[c] \in {"lock_session", "in_session"}) => req[c].session_id \in Keys

C20_Completion ==
    \A c \in Conns :
        LET id == req[c].session_id
        IN /\ ( /\ req[c].kind = "close_session"
                /\ pc[c] = "locked" /\ pc'[c] = "sending" )
              => IF id \in Keys
                 THEN /\ resp'[c].type = "state_update"
                      /\ resp'[c].session_id = id
                      /\ id \notin closedIds
                      /\ id \in closedIds' /\ id \notin Keys'
                 ELSE /\ resp'[c] = Error("session_not_found")
                      /\ atDispatch[c].registered => id \in closedIds
                      /\ sessions' = sessions
           /\ ( /\ req[c].kind \in SnapshotOps
                /\ atDispatch[c].registered
                /\ pc[c] \in {"locked", "in_session"} /\ pc'[c] = "sending" )
              => \/ /\ resp'[c] = Error("session_not_found")
                    /\ id \in closedIds
                    /\ sessions' = sessions
                 \/ /\ id \in Keys /\ id \in Keys'
                    /\ resp'[c] = StateUpdate(id, get_snapshot(sessions'[id]))
           /\ closedIds \subseteq closedIds'

C20_CloseRace == []C20_LiveWhileUsed /\ [][C20_Completion]_vars

\* two connections dispatched a CloseSession on the same registered id: one
\* is answered with the success, the other with "session_not_found"
C20_Witness ==
    \E c \in Conns : \E d \in Conns \ {c} :
        /\ pc[c] = "sending" /\ pc[d] = "sending"
        /\ req[c].kind = "close_session" /\ req[d].kind = "close_session"
        /\ req[c].session_id = req[d].session_id
        /\ atDispatch[c].registered /\ atDispatch[d].registered
        /\ resp[c].type = "state_update"
        /\ resp[d] = Error("session_not_found")

====
